---- MODULE Spec2Model ----
(***************************************************************************)
(* PDFService (backend/services/pdf_service.py): rendering a template and  *)
(* a data map to a PDF, optionally on top of a background PDF, through the *)
(* chain native form fill -> pikepdf merge -> PyPDF2 merge (+ flatten) ->  *)
(* simple render.                                                          *)
(*                                                                         *)
(* Conventions.  A Python str is a sequence of one-character strings, so   *)
(* that len(), slicing and lower() are computed.  Lengths are points; a    *)
(* position on the canvas is kept in units of 1/30 point so that height/2, *)
(* font_size/3 and the 0.2/0.4/0.8 fractions of the checkmark are exact.   *)
(* A PDF byte buffer is the document it serialises: a record of pages      *)
(* (content entry and annotations) and the catalog's /AcroForm flag.       *)
(***************************************************************************)
EXTENDS Integers, Sequences, FiniteSets, TLC

VARIABLES
    PIKEPDF_AVAILABLE,   \* module global set by the import at load time
    writerKeepsAcroForm, \* whether PdfWriter.add_page leaves /AcroForm in the writer's catalog
    template_cache,      \* self.template_cache
    temp_files,          \* number of debug_overlay_*.pdf files under backend/temp
    pc,                  \* position of the render call
    template, data, background_pdf_path, disk,   \* arguments of the call, file behind the path
    fill_result,         \* result of _try_fill_pdf_form_fields
    overlay_buffer,      \* the BytesIO the overlay canvas wrote into
    overlay_bytes,       \* overlay_buffer.getvalue()
    pikepdf_works,       \* local of _generate_overlay_merge
    result_bytes,        \* result of _merge_with_pikepdf
    pypdf2_result,       \* bytes written by the PyPDF2 writer
    flattened,           \* result of _flatten_pdf_with_pikepdf
    timestamp,           \* value of _get_timestamp() used by the simple render
    outcome,             \* "none" while running, then "returned" or "raised"
    result,              \* what generate_pdf returned
    source,              \* which step produced the returned value
    log,                 \* the steps attempted during the call, in order
    open_handles,        \* the pikepdf documents the call opened and has not closed
    previous,            \* what the call before this one was given and what it produced
    parked               \* the locals of a second call running on another thread

vars == <<PIKEPDF_AVAILABLE, writerKeepsAcroForm, template_cache, temp_files, pc,
          template, data, background_pdf_path, disk, fill_result, overlay_buffer,
          overlay_bytes, pikepdf_works, result_bytes, pypdf2_result, flattened,
          timestamp, outcome, result, source, log, open_handles, previous, parked>>

-----------------------------------------------------------------------------
(* Bounds of the model *)

MaxPages == 2        \* pages of a background document
MaxTempFiles == 1    \* debug overlay files kept in the temp directory
MaxClock == 2        \* distinct values of the wall clock

-----------------------------------------------------------------------------
(* Python values *)

\* None, where a str is expected
NoneStr == <<"None">>

\* None, where a PDF byte buffer is expected
NoneBytes == [kind |-> "None"]

\* getattr(obj, name, default) on a record of attributes
GetAttr(obj, name, default) == IF name \in DOMAIN obj THEN obj[name] ELSE default

\* dict.get(key, default)
DictGet(d, key, default) == IF key \in DOMAIN d THEN d[key] ELSE default

\* {}
EmptyDict == [k \in {} |-> <<>>]

\* Data values: str, bool, list (of rows), each row a list of cells or a dict
StrV(s) == [t |-> "str", s |-> s]
BoolV(b) == [t |-> "bool", b |-> b]
ListV(rows) == [t |-> "list", rows |-> rows]
IntV(n) == [t |-> "int", n |-> n]

\* the default '' of data.get(name, '')
EmptyStr == StrV(<<>>)

\* bool(value)
Truthy(v) ==
    CASE v.t = "str" -> v.s # <<>>
      [] v.t = "bool" -> v.b
      [] v.t = "list" -> v.rows # <<>>
      [] v.t = "int" -> v.n # 0
      [] OTHER -> FALSE

\* str(n) for an int n
RECURSIVE IntStr(_)
IntStr(n) ==
    IF n < 0 THEN <<"-">> \o IntStr(-n)
    ELSE IF n < 10
    THEN <<CASE n = 0 -> "0" [] n = 1 -> "1" [] n = 2 -> "2" [] n = 3 -> "3" [] n = 4 -> "4"
             [] n = 5 -> "5" [] n = 6 -> "6" [] n = 7 -> "7" [] n = 8 -> "8" [] n = 9 -> "9">>
    ELSE IntStr(n \div 10) \o IntStr(n % 10)

\* str(value)
Str(v) ==
    CASE v.t = "str" -> v.s
      [] v.t = "bool" -> IF v.b THEN <<"T", "r", "u", "e">> ELSE <<"F", "a", "l", "s", "e">>
      [] v.t = "int" -> IntStr(v.n)
      [] OTHER -> <<"[", "]">>

\* the letters str.lower() changes, and what it changes them to
UpperCase == <<"A", "B", "C", "D", "E", "F", "G", "H", "I", "J", "K", "L", "M",
               "N", "O", "P", "Q", "R", "S", "T", "U", "V", "W", "X", "Y", "Z">>
LowerCase == <<"a", "b", "c", "d", "e", "f", "g", "h", "i", "j", "k", "l", "m",
               "n", "o", "p", "q", "r", "s", "t", "u", "v", "w", "x", "y", "z">>

LowerOf ==
    [c \in {UpperCase[i] : i \in 1..26} |->
        LowerCase[CHOOSE i \in 1..26 : UpperCase[i] = c]]

LowerChar(c) == IF c \in DOMAIN LowerOf THEN LowerOf[c] ELSE c

\* str.lower()
Lower(s) == [i \in 1..Len(s) |-> LowerChar(s[i])]

RECURSIVE LStrip(_)
LStrip(s) == IF s # <<>> /\ Head(s) = " " THEN LStrip(Tail(s)) ELSE s

RECURSIVE RStrip(_)
RStrip(s) == IF s # <<>> /\ s[Len(s)] = " " THEN RStrip(SubSeq(s, 1, Len(s) - 1)) ELSE s

\* str.strip()
Strip(s) == RStrip(LStrip(s))

\* text[:n] for n >= 0, and text[:n] for n < 0 (drop the last -n characters)
Prefix(s, n) ==
    IF n >= 0 THEN SubSeq(s, 1, IF n < Len(s) THEN n ELSE Len(s))
    ELSE SubSeq(s, 1, IF Len(s) + n > 0 THEN Len(s) + n ELSE 0)

Ellipsis == <<".", ".", ".">>

RECURSIVE Concat(_)
Concat(ss) == IF ss = <<>> THEN <<>> ELSE Head(ss) \o Concat(Tail(ss))

\* int(a / b) for b # 0: Python's int() truncates toward zero
TruncDiv(a, b) ==
    IF (a >= 0 /\ b > 0) \/ (a <= 0 /\ b < 0)
    THEN (IF a >= 0 THEN a ELSE -a) \div (IF b >= 0 THEN b ELSE -b)
    ELSE -((IF a >= 0 THEN a ELSE -a) \div (IF b >= 0 THEN b ELSE -b))

Min(a, b) == IF a < b THEN a ELSE b

-----------------------------------------------------------------------------
(* Drawing operations put on the canvas; coordinates in 1/30 point, line
   widths in half points *)

TextOp(x, y, text, font, size) ==
    [op |-> "drawString", x |-> x, y |-> y, text |-> text, font |-> font, size |-> size]

RectOp(x, y, w, h, fill, lineWidth) ==
    [op |-> "rect", x |-> x, y |-> y, w |-> w, h |-> h, fill |-> fill, lineWidth |-> lineWidth]

LineOp(x1, y1, x2, y2, lineWidth) ==
    [op |-> "line", x1 |-> x1, y1 |-> y1, x2 |-> x2, y2 |-> y2, lineWidth |-> lineWidth]

\* what one call of _draw_field / _draw_table did: the marks, the return value,
\* and whether it raised
Drawn(ops, ret) == [raised |-> FALSE, ops |-> ops, ret |-> ret]
DrawRaised == [raised |-> TRUE, ops |-> <<>>, ret |-> "None"]

\* variant of ToContentY: the height of the field is not taken off
ToContentYNoHeight(page_height, field) == page_height - field.y

\* y = page_height - field.y - field.height
ToContentY(page_height, field) == page_height - field.y - field.height

\* variant of IsChecked: only the listed affirmative words count as checked
IsCheckedListedOnly(value) ==
    /\ Truthy(value)
    /\ Lower(Strip(Str(value))) \in
          {<<"t", "r", "u", "e">>, <<"y", "e", "s">>, <<"1">>,
           <<"c", "h", "e", "c", "k", "e", "d">>, <<"o", "n">>, <<"x">>}

\* the checkbox decision of _draw_field
IsChecked(value) ==
    IF Truthy(value)
    THEN LET value_str == Lower(Strip(Str(value)))
         IN  \/ value_str \in {<<"t", "r", "u", "e">>, <<"y", "e", "s">>, <<"1">>,
                               <<"c", "h", "e", "c", "k", "e", "d">>, <<"o", "n">>, <<"x">>}
             \/ value_str \notin {<<"f", "a", "l", "s", "e">>, <<"n", "o">>, <<"0">>,
                                  <<"u", "n", "c", "h", "e", "c", "k", "e", "d">>,
                                  <<"o", "f", "f">>, <<>>}
    ELSE FALSE

\* text[:max_chars - 3] + '...' when len(text) > max_chars
Truncate(text, max_chars) ==
    IF Len(text) > max_chars THEN Prefix(text, max_chars - 3) \o Ellipsis ELSE text

\* max_chars = int(width / (font_size * 0.6)), font_size # 0
MaxChars(width, font_size) == TruncDiv(5 * width, 3 * font_size)

Digits == <<"0", "1", "2", "3", "4", "5", "6", "7", "8", "9">>

IsDigit(c) == \E i \in 1..10 : Digits[i] = c

\* int() of a string of digits
RECURSIVE Number(_)
Number(s) ==
    IF s = <<>> THEN 0
    ELSE 10 * Number(SubSeq(s, 1, Len(s) - 1))
         + (CHOOSE i \in 1..10 : Digits[i] = s[Len(s)]) - 1

\* 'T' in s
ContainsT(s) == \E i \in 1..Len(s) : s[i] = "T"

\* s.split('T')[0]
SplitAtT(s) ==
    IF ContainsT(s)
    THEN SubSeq(s, 1, (CHOOSE i \in 1..Len(s) :
                          s[i] = "T" /\ \A j \in 1..(i - 1) : s[j] # "T") - 1)
    ELSE s

DaysInMonth(year, month) ==
    CASE month \in {4, 6, 9, 11} -> 30
      [] month = 2 ->
           IF (year % 4 = 0 /\ year % 100 # 0) \/ year % 400 = 0 THEN 29 ELSE 28
      [] OTHER -> 31

\* datetime.fromisoformat accepts the string as a YYYY-MM-DD calendar date (the
\* compact and week forms Python 3.11 also accepts are not among the inputs)
IsIsoDate(s) ==
    /\ Len(s) = 10
    /\ s[5] = "-" /\ s[8] = "-"
    /\ \A i \in {1, 2, 3, 4, 6, 7, 9, 10} : IsDigit(s[i])
    /\ LET year == Number(SubSeq(s, 1, 4))
           month == Number(SubSeq(s, 6, 7))
           day == Number(SubSeq(s, 9, 10))
       IN  /\ year >= 1
           /\ month \in 1..12
           /\ day \in 1..DaysInMonth(year, month)

RECURSIVE StripZeros(_)
StripZeros(s) == IF Len(s) > 1 /\ Head(s) = "0" THEN StripZeros(Tail(s)) ELSE s

\* date_obj.strftime('%Y-%m-%d') of the parsed date: month and day in two
\* digits, the year as glibc's strftime prints %Y (no leading zeros; the C
\* libraries of macOS and Windows pad the year to four digits)
Strftime(s) == StripZeros(SubSeq(s, 1, 4)) \o SubSeq(s, 5, 10)

\* lines 631-641: the date part of an ISO value, reformatted; any other value
\* as it is (the exception of fromisoformat is swallowed)
FormatDate(s) ==
    IF ContainsT(s) \/ Len(s) = 10
    THEN IF IsIsoDate(SplitAtT(s)) THEN Strftime(SplitAtT(s)) ELSE s
    ELSE s

\* str(row_data[col_idx]) if row_data[col_idx] else ''
ListCellText(cell) == IF Truthy(cell) THEN Str(cell) ELSE <<>>

\* str(row_data.get(header, ''))
DictCellText(row, header) == Str(DictGet(row, header, EmptyStr))

\* int((cell_width - 10) / 5)
CellMaxChars(cell_width) == TruncDiv(cell_width - 10, 5)

\* variant of DataRowCount: every row of the data is drawn
DataRowCountAll(rows, table_data) == Len(table_data.rows)

\* line 720: range(min(rows, len(table_data)))
DataRowCount(rows, table_data) == Min(rows, Len(table_data.rows))

DrawTable(field, d, page_height, overlay_mode) ==
    LET x == field.x
        y == ToContentY(page_height, field)
        rowsAttr == GetAttr(field, "tableRows", <<3>>)
        columns == GetAttr(field, "tableColumns", 3)
        headers == GetAttr(field, "tableHeaders", <<>>)
        cell_width == GetAttr(field, "cellWidth", 100)
        cell_height == GetAttr(field, "cellHeight", 25)
    IN  IF rowsAttr = <<>>
        THEN DrawRaised     \* rows is None: rows + (1 if has_headers else 0) raises TypeError
        ELSE
        LET rows == rowsAttr[1]
            table_width == cell_width * columns
            has_headers == Len(headers) > 0
            total_rows == rows + (IF has_headers THEN 1 ELSE 0)
            table_height == cell_height * total_rows
            table_data == DictGet(d, field.name, ListV(<<>>))
            border == <<RectOp(30 * x, 30 * y, 30 * table_width, 30 * table_height, FALSE, 4)>>
            hlines == [i \in 1..(total_rows - 1) |->
                         LineOp(30 * x, 30 * (y + i * cell_height),
                                30 * (x + table_width), 30 * (y + i * cell_height),
                                IF has_headers /\ i = 1 THEN 4 ELSE 2)]
            vlines == [i \in 1..(columns - 1) |->
                         LineOp(30 * (x + i * cell_width), 30 * y,
                                30 * (x + i * cell_width), 30 * (y + table_height), 2)]
            headerOps ==
                IF has_headers
                THEN <<RectOp(30 * x, 30 * (y + table_height - cell_height),
                              30 * table_width, 30 * cell_height, TRUE, 2)>>
                     \o [col \in 1..Min(columns, Len(headers)) |->
                           TextOp(30 * (x + (col - 1) * cell_width + 5),
                                  30 * (y + table_height - cell_height) + 15 * cell_height - 90,
                                  headers[col], "Helvetica-Bold", 10)]
                ELSE <<>>
            start_row == IF has_headers THEN 1 ELSE 0
            CellOp(row_idx, col_idx, cell_value) ==
                TextOp(30 * (x + col_idx * cell_width + 5),
                       30 * (y + table_height - (row_idx + start_row + 1) * cell_height)
                          + 15 * cell_height - 90,
                       Truncate(cell_value, CellMaxChars(cell_width)), "Helvetica", 9)
            RowOps(row_idx) ==
                LET row_data == table_data.rows[row_idx + 1]
                IN  CASE row_data.t = "list" ->
                           [c \in 1..Min(columns, Len(row_data.cells)) |->
                              CellOp(row_idx, c - 1, ListCellText(row_data.cells[c]))]
                      [] row_data.t = "dict" ->
                           [c \in 1..Min(columns, Len(headers)) |->
                              CellOp(row_idx, c - 1, DictCellText(row_data.map, headers[c]))]
                      [] OTHER -> <<>>
            cells ==
                IF table_data.t = "list"
                THEN Concat([r \in 1..DataRowCount(rows, table_data) |-> RowOps(r - 1)])
                ELSE <<>>
        IN  Drawn(border \o hlines \o vlines \o headerOps \o cells, "None")

DrawField(field, d, page_height, overlay_mode) ==
    LET field_name == field.name
        field_type == field.type
        field_label == GetAttr(field, "label", <<field_name>>)
        x == field.x
        y == ToContentY(page_height, field)
        width == field.width
        height == field.height
        font_size == GetAttr(field, "fontSize", 12)
        font_weight == GetAttr(field, "fontWeight", "normal")
        font_name == IF font_weight = "bold" THEN "Helvetica-Bold" ELSE "Helvetica"
        value == DictGet(d, field_name, EmptyStr)
    IN  CASE field_type = "table" ->
               LET t == DrawTable(field, d, page_height, overlay_mode)
               IN  IF t.raised THEN DrawRaised ELSE Drawn(t.ops, "None")
          [] field_type = "label" ->
               IF overlay_mode THEN Drawn(<<>>, "None")
               ELSE IF field_label = NoneStr THEN DrawRaised   \* drawString(x, y, None)
               ELSE Drawn(<<TextOp(30 * x, 30 * y + 15 * height - 10 * font_size,
                                   field_label, font_name, font_size)>>, "None")
          [] field_type = "checkbox" ->
               LET box == IF overlay_mode THEN <<>>
                          ELSE <<RectOp(30 * x, 30 * y, 30 * width, 30 * height, FALSE, 3)>>
               IN  IF IsChecked(value)
                   THEN Drawn(box \o
                          <<LineOp(30 * x + 6 * width, 30 * y + 12 * height,
                                   30 * x + 12 * width, 30 * y + 6 * height, 4),
                            LineOp(30 * x + 12 * width, 30 * y + 6 * height,
                                   30 * x + 24 * width, 30 * y + 24 * height, 4)>>,
                          "checkbox_drawn")
                   ELSE Drawn(box, "checkbox_empty")
          [] OTHER ->
               IF ~overlay_mode /\ field_label = NoneStr
               THEN DrawRaised      \* field_label + ":" with field_label None
               ELSE
               LET box == IF overlay_mode THEN <<>>
                          ELSE <<RectOp(30 * x, 30 * y, 30 * width, 30 * height, TRUE, 2),
                                 TextOp(30 * x, 30 * (y + height + 3),
                                        field_label \o <<":">>, "Helvetica", 8)>>
               IN  IF ~Truthy(value) THEN Drawn(box, "None")
                   ELSE IF font_size = 0 THEN DrawRaised   \* width / (font_size * 0.6)
                   ELSE LET text == IF field_type = "date" THEN FormatDate(Str(value))
                                    ELSE Str(value)
                        IN  Drawn(box \o
                          <<TextOp(30 * (x + 5), 30 * y + 15 * height - 10 * font_size,
                                   Truncate(text, MaxChars(width, font_size)),
                                   font_name, font_size)>>, "None")

\* the fields of a template drawn in order: the marks of all of them, or raised
RECURSIVE DrawFields(_, _, _, _)
DrawFields(fields, d, page_height, overlay_mode) ==
    IF fields = <<>> THEN Drawn(<<>>, "None")
    ELSE LET first == DrawField(Head(fields), d, page_height, overlay_mode)
             rest == DrawFields(Tail(fields), d, page_height, overlay_mode)
         IN  IF first.raised \/ rest.raised THEN DrawRaised
             ELSE Drawn(first.ops \o rest.ops, "None")

-----------------------------------------------------------------------------
(* PDF documents *)

\* a page's /Contents entry: absent, one stream, or an array of streams
NoContents == [shape |-> "none", streams |-> <<>>]
SingleContents(stream) == [shape |-> "single", streams |-> <<stream>>]
ArrayContents(streams) == [shape |-> "array", streams |-> streams]

\* a page's /Annots entry
NoAnnots == [present |-> FALSE, widgets |-> <<>>]
Annots(widgets) == [present |-> TRUE, widgets |-> widgets]

Widget(name, value) == [name |-> name, value |-> value]

Page(contents, annots) == [contents |-> contents, annots |-> annots]

Doc(pages, acroForm, producer) ==
    [kind |-> "pdf", pages |-> pages, acroForm |-> acroForm, producer |-> producer]

\* the drawing instructions of a page, in painting order
PageOps(page) == Concat(page.contents.streams)

\* the page a reportlab canvas saves: one content stream, no annotations
CanvasDoc(ops) == Doc(<<Page(SingleContents(ops), NoAnnots)>>, FALSE, "ReportLab")

\* variant of GenerateSimplePdf: the time stamp is also put in the title line
GenerateSimplePdfStampedTitle(t, d, ts) ==
    LET page_height == GetAttr(t, "pageHeight", 792)
        header == <<TextOp(30 * 40, 30 * (page_height - 30), <<"Template: ", t.name, ts>>,
                           "Helvetica-Bold", 10),
                    TextOp(30 * 40, 30 * (page_height - 45), <<"Generated: ", ts>>,
                           "Helvetica", 8)>>
        drawn == DrawFields(t.fields, d, page_height, FALSE)
    IN  IF drawn.raised THEN [raised |-> TRUE, bytes |-> NoneBytes]
        ELSE [raised |-> FALSE, bytes |-> CanvasDoc(header \o drawn.ops)]

\* _generate_simple_pdf: header, then every field; raises when a field raises
GenerateSimplePdf(t, d, ts) ==
    LET page_height == GetAttr(t, "pageHeight", 792)
        header == <<TextOp(30 * 40, 30 * (page_height - 30), <<"Template: ", t.name>>,
                           "Helvetica-Bold", 10),
                    TextOp(30 * 40, 30 * (page_height - 45), <<"Generated: ", ts>>,
                           "Helvetica", 8)>>
        drawn == DrawFields(t.fields, d, page_height, FALSE)
    IN  IF drawn.raised THEN [raised |-> TRUE, bytes |-> NoneBytes]
        ELSE [raised |-> FALSE, bytes |-> CanvasDoc(header \o drawn.ops)]

\* lines 202-234 of _generate_overlay_merge: the transparent overlay
RenderOverlay(t, d) ==
    LET page_height == GetAttr(t, "pageHeight", 792)
        drawn == DrawFields(t.fields, d, page_height, TRUE)
    IN  IF drawn.raised THEN [raised |-> TRUE, bytes |-> NoneBytes]
        ELSE [raised |-> FALSE, bytes |-> CanvasDoc(drawn.ops)]

\* the checkbox rule of _try_fill_pdf_form_fields
FillCheckboxState(value) ==
    IF Truthy(value)
       /\ Lower(Strip(Str(value))) \in
            {<<"y", "e", "s">>, <<"t", "r", "u", "e">>, <<"1">>,
             <<"c", "h", "e", "c", "k", "e", "d">>, <<"o", "n">>, <<"x">>}
    THEN <<"/", "Y", "e", "s">>
    ELSE <<"/", "O", "f", "f">>

\* the form_fields dict built from the template: later fields overwrite earlier ones
RECURSIVE FormFields(_, _)
FormFields(fields, d) ==
    IF fields = <<>> THEN EmptyDict
    ELSE LET field == fields[Len(fields)]
             before == FormFields(SubSeq(fields, 1, Len(fields) - 1), d)
             value == DictGet(d, field.name, EmptyStr)
         IN  IF field.type = "checkbox"
             THEN (field.name :> FillCheckboxState(value)) @@ before
             ELSE IF Truthy(value) THEN (field.name :> Str(value)) @@ before
             ELSE before

\* PdfWriter.update_page_form_field_values(page, fields): /V of every widget of
\* the page whose /T is a key of fields
UpdatePageFormFieldValues(page, form_fields) ==
    Page(page.contents,
         [page.annots EXCEPT !.widgets =
            [i \in 1..Len(page.annots.widgets) |->
               LET w == page.annots.widgets[i]
               IN  IF w.name \in DOMAIN form_fields
                   THEN Widget(w.name, form_fields[w.name]) ELSE w]])

\* what the libraries cannot do with a given background file
Quirks == {"fill", "pike", "merge", "merge_alt", "flatten"}

\* _try_fill_pdf_form_fields: the filled document, or None
TryFillPdfFormFields(file, t, d, keepsForm) ==
    IF ~file.parseable THEN NoneBytes                 \* PdfReader raises
    ELSE IF ~file.doc.acroForm THEN NoneBytes         \* no /AcroForm in the catalog
    ELSE IF ~keepsForm THEN NoneBytes                 \* writer._root_object has no /AcroForm
    ELSE IF file.doc.pages = <<>> THEN NoneBytes      \* writer.pages[0] raises IndexError
    ELSE IF "fill" \in file.quirks THEN NoneBytes     \* update or write raises
    ELSE Doc([i \in 1..Len(file.doc.pages) |->
                IF i = 1
                THEN UpdatePageFormFieldValues(file.doc.pages[1], FormFields(t.fields, d))
                ELSE file.doc.pages[i]],
             TRUE, "PyPDF2")

\* del page['/Annots'] on every page, del Root['/AcroForm']
RemoveFormFields(doc) ==
    [doc EXCEPT !.pages = [i \in 1..Len(doc.pages) |-> Page(doc.pages[i].contents, NoAnnots)],
                !.acroForm = FALSE]

\* lines 378-406 of _merge_with_pikepdf: the /Contents of the merged first page
\* variant of AsArray: an entry that is not an array counts as no entry
AsArrayArraysOnly(contents) ==
    IF contents.shape = "array" THEN contents.streams ELSE <<>>

\* lines 383-390: a /Contents entry as a pikepdf.Array: the array itself, the
\* one stream in an array of one, or the empty array when there is no entry
AsArray(contents) ==
    CASE contents.shape = "array" -> contents.streams
      [] contents.shape = "single" -> <<contents.streams[1]>>
      [] contents.shape = "none" -> <<>>

\* lines 381-403
PikepdfMergedContents(bg_contents, overlay_contents) ==
    IF overlay_contents.shape # "none"
    THEN ArrayContents(AsArray(bg_contents) \o AsArray(overlay_contents))
    ELSE bg_contents

\* _merge_with_pikepdf: the merged and flattened document, or None
\* the documents _merge_with_pikepdf has opened when its try block is left:
\* none when Pdf.open of the background raises, the background alone when
\* background.pages[0] or Pdf.open of the overlay raises, else both
MergeOpened(file, overlay) ==
    IF ~file.parseable THEN {}
    ELSE IF file.doc.pages = <<>> \/ overlay.kind # "pdf" THEN {"background"}
    ELSE {"background", "overlay"}

\* lines 454-464: the documents still open after the finally block. Both are
\* closed in one try: when background.close() raises, the exception is
\* swallowed and overlay.close() is not reached
MergeFinally(opened, closeOk) == IF closeOk THEN {} ELSE opened

\* lines 476-505: the document _flatten_pdf_with_pikepdf leaves open. It is
\* closed after save only (line 497): an exception between Pdf.open and
\* pdf.close() goes to the except clause with the document open
FlattenLeftOpen(fails, atOpen) == IF fails /\ ~atOpen THEN {"pdf"} ELSE {}

MergeWithPikepdf(file, overlay) ==
    IF ~file.parseable THEN NoneBytes                 \* Pdf.open raises
    ELSE IF file.doc.pages = <<>> THEN NoneBytes      \* background.pages[0] raises
    ELSE IF overlay.kind # "pdf" THEN NoneBytes
    ELSE IF "pike" \in file.quirks THEN NoneBytes     \* copy_foreign or save raises
    ELSE LET merged ==
                 [file.doc EXCEPT !.pages[1].contents =
                    PikepdfMergedContents(file.doc.pages[1].contents,
                                          overlay.pages[1].contents)]
         IN  RemoveFormFields(merged)

\* PageObject.merge_page(page2): page2's content after self's, in one stream;
\* the annotations of both
MergePage(self, page2) ==
    Page(SingleContents(PageOps(self) \o PageOps(page2)),
         Annots(self.annots.widgets \o page2.annots.widgets))

\* lines 287-331 of _generate_overlay_merge: the bytes the PyPDF2 writer wrote
PyPDF2Merge(file, overlay) ==
    IF ~file.parseable \/ file.doc.pages = <<>>
    THEN [raised |-> TRUE, alt |-> FALSE, bytes |-> NoneBytes]
    ELSE LET background_page == file.doc.pages[1]
             overlay_page == overlay.pages[1]
         IN  IF "merge" \notin file.quirks
             THEN [raised |-> FALSE, alt |-> FALSE,
                   bytes |-> Doc(<<MergePage(background_page, overlay_page)>>,
                                 FALSE, "AIPdfGenerator")]
             ELSE IF "merge_alt" \notin file.quirks
             THEN [raised |-> FALSE, alt |-> TRUE,
                   bytes |-> Doc(<<MergePage(overlay_page, background_page)>>,
                                 FALSE, "AIPdfGenerator")]
             ELSE [raised |-> TRUE, alt |-> TRUE, bytes |-> NoneBytes]

\* _flatten_pdf_with_pikepdf: the flattened document, or None
FlattenPdfWithPikepdf(pdf_bytes, fails) ==
    IF fails THEN NoneBytes
    ELSE RemoveFormFields(pdf_bytes)

-----------------------------------------------------------------------------
(* Inputs of a render call *)

TextField(name, label) ==
    [name |-> name, type |-> "text", label |-> label, x |-> 100, y |-> 200,
     width |-> 150, height |-> 20, fontSize |-> 12, fontWeight |-> "normal",
     fontFamily |-> "Helvetica", tableRows |-> <<>>]

CheckboxField(name) == [TextField(name, <<"C">>) EXCEPT !.type = "checkbox", !.y = 300, !.width = 20]

LabelField(name) == [TextField(name, <<"L">>) EXCEPT !.type = "label", !.y = 100]

\* a table as app.py's Field model delivers it when the request gives no tableRows
TableField(name) == [TextField(name, <<"T">>) EXCEPT !.type = "table", !.y = 400]

NewTemplate(name, fields) ==
    [name |-> name, fields |-> fields, pageWidth |-> 612, pageHeight |-> 792]

\* a text field with a label
Invoice == NewTemplate("Invoice", <<TextField("f1", <<"N">>)>>)

\* a static label and a checkbox
Consent == NewTemplate("Consent", <<LabelField("f0"), CheckboxField("f1")>>)

\* a text field whose label the request left out (label is None)
Bare == NewTemplate("Bare", <<TextField("f1", NoneStr)>>)

\* a table whose tableRows the request left out (tableRows is None)
Items == NewTemplate("Items", <<TableField("f1")>>)

Yes == [n \in {"f1"} |-> StrV(<<"y", "e", "s">>)]

\* the (template, data) pairs of the requests
\* a template whose one field has a name no widget of a background has
Other == NewTemplate("Other", <<TextField("f2", <<"N">>)>>)

Requests ==
    { [template |-> Invoice, data |-> Yes],
      [template |-> Invoice, data |-> EmptyDict],
      [template |-> Consent, data |-> Yes],
      [template |-> Bare, data |-> Yes],
      [template |-> Items, data |-> EmptyDict],
      [template |-> Other, data |-> [n \in {"f2"} |-> StrV(<<"y", "e", "s">>)]] }

BgOp(p, n) == [op |-> "bg", page |-> p, n |-> n]

OldValue == <<"o", "l", "d">>

\* a page without annotations, or with a widget named as the templates name
\* their field and a widget no template names
AnnotsKinds == {NoAnnots, Annots(<<Widget("f1", OldValue), Widget("f3", OldValue)>>)}

\* the shapes a background page can have: the first page with every shape of
\* /Contents, with or without widgets; the others with one stream and a widget
PageKinds(p) ==
    IF p = 1
    THEN {Page(c, a) : c \in {NoContents, SingleContents(<<BgOp(1, 1)>>),
                              ArrayContents(<<<<BgOp(1, 1)>>, <<BgOp(1, 2), BgOp(1, 3)>>>>)},
                       a \in AnnotsKinds}
    ELSE {Page(SingleContents(<<BgOp(p, 1)>>), Annots(<<Widget("f1", OldValue)>>))}

RECURSIVE PageSeqs(_)
PageSeqs(n) ==
    IF n = 0 THEN {<<>>}
    ELSE {Append(ps, pg) : ps \in PageSeqs(n - 1), pg \in PageKinds(n)}

BackgroundDocs ==
    {Doc(ps, form, "Acrobat") : ps \in UNION {PageSeqs(n) : n \in 0..MaxPages},
                                form \in BOOLEAN}

\* the files a background path can name: not a PDF at all, or a PDF document
\* together with what the libraries cannot do with it
\* A quirk is listed only where a call can meet it: the flatten pass sees only
\* documents whose pikepdf merge failed, the reversed merge_page is only called
\* after the standard one raised, and filling needs a form.
QuirkSets(doc) ==
    {q \in SUBSET Quirks : /\ "flatten" \in q => "pike" \in q
                           /\ "merge_alt" \in q => "merge" \in q
                           /\ "fill" \in q => doc.acroForm}

BackgroundFiles ==
    {[parseable |-> FALSE, doc |-> Doc(<<>>, FALSE, "none"), quirks |-> {}]}
    \cup UNION {{[parseable |-> TRUE, doc |-> doc, quirks |-> q] : q \in QuirkSets(doc)} :
                  doc \in BackgroundDocs}

NoPath == "None"

\* the values _get_timestamp() can return
Timestamps == {ToString(i) : i \in 1..MaxClock}

-----------------------------------------------------------------------------
(* Inputs that exercise the field renderer *)

\* texts a request can give for a checkbox
CheckboxTexts ==
    {<<>>,
     <<"x">>,
     <<"X">>,
     <<"y", "e", "s">>,
     <<"Y", "e", "s">>,
     <<"n", "o">>,
     <<"N", "o">>,
     <<"N", "O">>,
     <<" ", "n", "o", " ">>,
     <<" ">>,
     <<"m", "a", "y", "b", "e">>,
     <<"o", "f", "f">>,
     <<"O", "F", "F">>,
     <<"0">>,
     <<"f", "a", "l", "s", "e">>,
     <<"F", "a", "l", "s", "e">>,
     <<"u", "n", "c", "h", "e", "c", "k", "e", "d">>,
     <<"1">>,
     <<"t", "r", "u", "e">>,
     <<"c", "h", "e", "c", "k", "e", "d">>,
     <<"o", "n">>,
     <<"0", "0">>}

\* the values the data map can hold for a checkbox: a text, a JSON boolean or
\* number
CheckboxValues ==
    {StrV(text) : text \in CheckboxTexts} \cup {BoolV(TRUE), BoolV(FALSE), IntV(0), IntV(1)}

\* the data maps giving the field f1 one of the values, and the one without it
DataMaps(values) == {[n \in {"f1"} |-> v] : v \in values} \cup {EmptyDict}

Check == NewTemplate("Check", <<CheckboxField("f1")>>)

Alphabet == <<"a", "b", "c", "d", "e", "f", "g", "h">>

IsoDate == <<"2", "0", "2", "4", "-", "0", "1", "-", "1", "5">>

\* a date of the year 999, a day no month has, and ten characters that are no
\* ISO date
EarlyDate == <<"0", "9", "9", "9", "-", "0", "1", "-", "1", "5">>
NoSuchDay == <<"2", "0", "2", "4", "-", "0", "2", "-", "3", "0">>
SlashDate == <<"2", "0", "2", "4", "/", "0", "1", "/", "1", "5">>

\* texts of every length from 0 to 8, an ISO date and an ISO date with a time,
\* and the texts a date field can be given in place of a date
TextValues ==
    {StrV(SubSeq(Alphabet, 1, n)) : n \in 0..8}
    \cup {StrV(IsoDate), StrV(IsoDate \o <<"T", "1", "0">>), IntV(0), IntV(12345)}
    \cup {StrV(EarlyDate), StrV(EarlyDate \o <<"T", "1", "0">>), StrV(NoSuchDay),
          StrV(SlashDate), StrV(<<"a", "T", "b">>)}

\* a field of one of the text kinds with a given box width and font size
TextLike(type, width, fontSize) ==
    [TextField("f1", <<"N">>) EXCEPT !.type = type, !.width = width, !.fontSize = fontSize]

\* boxes holding 1, 3, 5 and 20 characters of 12 pt text, and 7 of 8 pt text
TextFields ==
    {TextLike(type, width, 12) : type \in {"text", "date"}, width \in {10, 22, 36}}
    \cup {TextLike("text", 36, 8), TextLike("number", 36, 12), TextLike("select", 150, 12),
          TextLike("date", 150, 12)}

\* the end-to-end scenario of the documentation: a number field at (100, 200)
Total ==
    [name |-> "f1", type |-> "number", label |-> <<"t", "o", "t", "a", "l">>, x |-> 100, y |-> 200,
     width |-> 150, height |-> 20, fontSize |-> 12, fontWeight |-> "bold"]

Amount == <<"4", "2", ".", "5", "0">>

HeaderA == <<"a">>
HeaderB == <<"b">>

\* a table of two rows and two columns with headers and its own cell size
Grid ==
    [name |-> "f1", type |-> "table", label |-> <<"G">>, x |-> 50, y |-> 400,
     width |-> 80, height |-> 75, tableRows |-> <<2>>, tableColumns |-> 2,
     tableHeaders |-> <<HeaderA, HeaderB>>, cellWidth |-> 40, cellHeight |-> 25]

\* the same table with more headers than columns, and with fewer
ManyHeaders == [Grid EXCEPT !.tableHeaders = <<HeaderA, HeaderB, <<"c">>>>]
FewHeaders == [Grid EXCEPT !.tableHeaders = <<HeaderA>>]

\* a table for which only the number of rows is given
PlainGrid == [TableField("f1") EXCEPT !.tableRows = <<3>>]

ListRow(cells) == [t |-> "list", cells |-> cells]
DictRow(map) == [t |-> "dict", map |-> map]

\* the cell values of a row: short, longer than a cell holds, empty, and zero
Cells == {StrV(<<"q">>), StrV(Alphabet), StrV(<<>>), IntV(0)}

\* a positional row as the map from header text to the same cell values
AsDictRow(headers, row) ==
    DictRow([h \in {headers[i] : i \in 1..Min(Len(headers), Len(row.cells))} |->
               row.cells[CHOOSE i \in 1..Len(headers) : headers[i] = h]])

\* table data whose positional rows are replaced by the maps
AsDictRows(headers, table_data) ==
    ListV([r \in 1..Len(table_data.rows) |->
             IF table_data.rows[r].t = "list" THEN AsDictRow(headers, table_data.rows[r])
             ELSE table_data.rows[r]])

PositionalTables == {ListV(<<ListRow(<<a, b>>)>>) : a \in Cells, b \in Cells}

\* one positional row in every filling, the same rows as maps, more rows than
\* the table has (short, long and full), and data of the wrong shape
TableValues ==
    PositionalTables
    \cup {AsDictRows(Grid.tableHeaders, td) : td \in PositionalTables}
    \cup {ListV(<<ListRow(<<StrV(<<"q">>)>>),
                  ListRow(<<StrV(<<"q">>), StrV(<<"r">>), StrV(<<"s">>)>>),
                  ListRow(<<StrV(<<"q">>), StrV(<<"r">>)>>)>>),
          ListV(<<StrV(<<"q">>), DictRow((HeaderA :> StrV(<<"q">>)))>>),
          StrV(<<"q">>)}

\* a page of the usual height and a shorter one
OnPage(name, field, page_height) ==
    [NewTemplate(name, <<field>>) EXCEPT !.pageHeight = page_height]

RenderRequests ==
    {[template |-> Check, data |-> d] : d \in DataMaps(CheckboxValues)}
    \cup {[template |-> NewTemplate("Form", <<f>>), data |-> d] :
            f \in TextFields, d \in DataMaps(TextValues)}
    \cup {[template |-> OnPage("Receipt", Total, h), data |-> [n \in {"f1"} |-> StrV(Amount)]] :
            h \in {792, 500}}
    \cup {[template |-> OnPage("Table", g, h), data |-> d] :
            g \in {Grid, PlainGrid}, h \in {792, 500}, d \in DataMaps(TableValues)}
    \cup {[template |-> OnPage("Table", g, 792), data |-> d] :
            g \in {ManyHeaders, FewHeaders}, d \in DataMaps(TableValues)}
    \cup {[template |-> OnPage("Check", CheckboxField("f1"), 500), data |-> Yes],
          [template |-> OnPage("Label", LabelField("f1"), 500), data |-> Yes],
          [template |-> OnPage("Label", LabelField("f1"), 792), data |-> Yes]}

\* a one-page background without a form, the same one pikepdf cannot merge,
\* and one with a form
PlainFile ==
    [parseable |-> TRUE, quirks |-> {},
     doc |-> Doc(<<Page(SingleContents(<<BgOp(1, 1)>>), NoAnnots)>>, FALSE, "Acrobat")]

StubbornFile == [PlainFile EXCEPT !.quirks = {"pike"}]

FormFile ==
    [parseable |-> TRUE, quirks |-> {},
     doc |-> Doc(<<Page(SingleContents(<<BgOp(1, 1)>>),
                        Annots(<<Widget("f1", OldValue), Widget("f3", OldValue)>>))>>,
                 TRUE, "Acrobat")]

RenderBackgrounds == {PlainFile, StubbornFile, FormFile}

-----------------------------------------------------------------------------
(* The render call *)

Event(step, arg) == [step |-> step, arg |-> arg]

\* values of the call's locals before they are assigned
CallLocals ==
    /\ fill_result = NoneBytes
    /\ overlay_buffer = NoneBytes
    /\ overlay_bytes = NoneBytes
    /\ pikepdf_works = FALSE
    /\ result_bytes = NoneBytes
    /\ pypdf2_result = NoneBytes
    /\ flattened = NoneBytes
    /\ timestamp = "None"
    /\ outcome = "none"
    /\ result = NoneBytes
    /\ source = "none"
    /\ log = <<>>
    /\ open_handles = {}

\* no call: none has ended yet, no other thread is in a call
NoCall == [kind |-> "None"]

\* PDFService() at import of app.py
Init ==
    /\ PIKEPDF_AVAILABLE \in BOOLEAN
    /\ writerKeepsAcroForm \in BOOLEAN
    /\ template_cache = EmptyDict
    /\ temp_files = 0
    /\ pc = "idle"
    /\ template = NewTemplate("None", <<>>)
    /\ data = EmptyDict
    /\ background_pdf_path = NoPath
    /\ disk = EmptyDict
    /\ CallLocals
    /\ previous = NoCall
    /\ parked = NoCall

\* variant of UseOverlayMode: the existence of the file is not checked
UseOverlayModeAnyPath(path, dsk) == path # NoPath

\* line 61: background_pdf_path and os.path.exists(background_pdf_path)
UseOverlayMode(path, dsk) == path # NoPath /\ path \in DOMAIN dsk

\* `if result:` (line 118), `if result_bytes:` (line 273), `if flattened:` (line 338)
IsResult(bytes) == bytes # NoneBytes

\* variant of SecondaryOverlay: the buffer is read from its end and holds nothing
SecondaryOverlayExhausted(buffer) ==
    [kind |-> "pdf",
     pages |-> <<[contents |-> [shape |-> "single", streams |-> <<<<>>>>],
                  annots |-> [present |-> FALSE, widgets |-> <<>>]]>>,
     acroForm |-> FALSE, producer |-> "ReportLab"]

\* the overlay PdfReader(overlay_buffer) reads in the PyPDF2 merge (lines 289, 298)
SecondaryOverlay(buffer) == buffer

\* variant of AfterNativeFill: the filled document is ignored
AfterNativeFillIgnoresResult(r) == "overlay_render"

\* lines 118-123: return the filled document, or go on to the overlay merge
AfterNativeFill(r) == IF IsResult(r) THEN "done" ELSE "overlay_render"

\* variant of AfterOverlayRender: pikepdf is attempted whether or not it was imported
AfterOverlayRenderAlwaysPrimary(works) == "primary_merge"

\* lines 260-285: pikepdf first if it can be imported, PyPDF2 from the start if not
AfterOverlayRender(works) == IF works THEN "primary_merge" ELSE "secondary_merge"

\* variant of AfterPrimaryMerge: the pikepdf result is returned without `if result_bytes`
AfterPrimaryMergeUnchecked(r) == "done"

\* lines 273-287: return the pikepdf result, or fall back to PyPDF2
AfterPrimaryMerge(r) == IF IsResult(r) THEN "done" ELSE "secondary_merge"

\* variant of AfterSecondaryMerge: after an exception the merges are tried again
AfterSecondaryMergeRetries(raised, works) ==
    IF raised THEN "primary_merge" ELSE IF works THEN "flatten" ELSE "done"

\* variant of AfterSecondaryMerge: an exception is swallowed and nothing is returned
AfterSecondaryMergeSwallows(raised, works) ==
    IF works /\ ~raised THEN "flatten" ELSE "done"

\* lines 125-132 and 331-346: an exception of the PyPDF2 merge ends in the simple
\* render; its result is flattened if pikepdf can be imported, returned as is if not
AfterSecondaryMerge(raised, works) ==
    IF raised THEN "standalone" ELSE IF works THEN "flatten" ELSE "done"

\* lines 338-346: the flattened document if there is one, the unflattened one if not
FlattenOutcome(f, unflattened) == IF IsResult(f) THEN f ELSE unflattened

Returns(value, from) ==
    /\ pc' = "done"
    /\ outcome' = "returned"
    /\ result' = value
    /\ source' = from

\* generate_pdf: the choice between overlay mode and simple mode
GeneratePdf(t, d, path, dsk) ==
    /\ pc = "idle"
    /\ temp_files < MaxTempFiles
    /\ template' = t
    /\ data' = d
    /\ background_pdf_path' = path
    /\ disk' = dsk
    /\ pc' = IF UseOverlayMode(path, dsk) THEN "native_fill" ELSE "standalone"
    /\ UNCHANGED <<previous, parked>>
    /\ UNCHANGED open_handles
    /\ UNCHANGED <<PIKEPDF_AVAILABLE, writerKeepsAcroForm, template_cache, temp_files,
                   fill_result, overlay_buffer, overlay_bytes, pikepdf_works, result_bytes,
                   pypdf2_result, flattened, timestamp, outcome, result, source, log>>

\* _generate_pdf_with_overlay, lines 116-120
NativeFill ==
    /\ pc = "native_fill"
    /\ LET r == TryFillPdfFormFields(disk[background_pdf_path], template, data,
                                     writerKeepsAcroForm)
       IN  /\ fill_result' = r
           /\ log' = Append(log, Event("native_fill", NoneBytes))
           /\ IF AfterNativeFill(r) = "done"
              THEN Returns(r, "native_fill")
              ELSE /\ pc' = AfterNativeFill(r)
                   /\ UNCHANGED <<outcome, result, source>>
    /\ UNCHANGED <<previous, parked>>
    /\ UNCHANGED open_handles
    /\ UNCHANGED <<PIKEPDF_AVAILABLE, writerKeepsAcroForm, template_cache, temp_files,
                   template, data, background_pdf_path, disk, overlay_buffer, overlay_bytes,
                   pikepdf_works, result_bytes, pypdf2_result, flattened, timestamp>>

\* _generate_overlay_merge, lines 202-285: the overlay is rendered, a debug copy
\* is saved, and pikepdf is looked for
OverlayRender(dirOk, writeOk, importOk) ==
    /\ pc = "overlay_render"
    /\ log' = Append(log, Event("overlay_render", NoneBytes))
    /\ LET o == RenderOverlay(template, data)
       IN  IF o.raised \/ ~dirOk
           THEN \* _draw_field or os.makedirs raised: caught at line 125
                /\ pc' = "standalone"
                /\ overlay_buffer' = IF o.raised THEN overlay_buffer ELSE o.bytes
                /\ overlay_bytes' = IF o.raised THEN overlay_bytes ELSE o.bytes
                /\ UNCHANGED <<temp_files, pikepdf_works>>
           ELSE /\ overlay_buffer' = o.bytes
                /\ overlay_bytes' = o.bytes
                /\ temp_files' = IF writeOk THEN temp_files + 1 ELSE temp_files
                /\ pikepdf_works' = (PIKEPDF_AVAILABLE \/ importOk)
                /\ pc' = AfterOverlayRender(pikepdf_works')
    /\ UNCHANGED <<previous, parked>>
    /\ UNCHANGED open_handles
    /\ UNCHANGED <<PIKEPDF_AVAILABLE, writerKeepsAcroForm, template_cache, template, data,
                   background_pdf_path, disk, fill_result, result_bytes, pypdf2_result,
                   flattened, timestamp, outcome, result, source>>

\* lines 269-283: the pikepdf merge
PrimaryMerge(closeOk) ==
    /\ pc = "primary_merge"
    /\ open_handles' = open_handles \cup
          MergeFinally(MergeOpened(disk[background_pdf_path], overlay_bytes), closeOk)
    /\ LET r == MergeWithPikepdf(disk[background_pdf_path], overlay_bytes)
       IN  /\ result_bytes' = r
           /\ log' = Append(log, Event("primary_merge", overlay_bytes))
           /\ IF AfterPrimaryMerge(r) = "done"
              THEN Returns(r, "primary_merge")
              ELSE /\ pc' = AfterPrimaryMerge(r)
                   /\ UNCHANGED <<outcome, result, source>>
    /\ UNCHANGED <<previous, parked>>
    /\ UNCHANGED <<PIKEPDF_AVAILABLE, writerKeepsAcroForm, template_cache, temp_files,
                   template, data, background_pdf_path, disk, fill_result, overlay_buffer,
                   overlay_bytes, pikepdf_works, pypdf2_result, flattened, timestamp>>

\* lines 287-346 up to the flatten attempt: the PyPDF2 merge
SecondaryMerge ==
    /\ pc = "secondary_merge"
    /\ LET overlay == SecondaryOverlay(overlay_buffer)
           m == PyPDF2Merge(disk[background_pdf_path], overlay)
       IN  /\ log' = log \o <<Event("secondary_merge", overlay)>>
                         \o (IF m.alt THEN <<Event("secondary_merge_alt", overlay)>> ELSE <<>>)
           /\ pypdf2_result' = m.bytes
           /\ IF AfterSecondaryMerge(m.raised, pikepdf_works) = "done"
              THEN Returns(m.bytes, "secondary_merge")
              ELSE /\ pc' = AfterSecondaryMerge(m.raised, pikepdf_works)
                   /\ UNCHANGED <<outcome, result, source>>
    /\ UNCHANGED <<previous, parked>>
    /\ UNCHANGED open_handles
    /\ UNCHANGED <<PIKEPDF_AVAILABLE, writerKeepsAcroForm, template_cache, temp_files,
                   template, data, background_pdf_path, disk, fill_result, overlay_buffer,
                   overlay_bytes, pikepdf_works, result_bytes, flattened, timestamp>>

\* lines 333-346: the flatten pass over the PyPDF2 result
Flatten(atOpen) ==
    /\ pc = "flatten"
    /\ open_handles' = open_handles \cup
          FlattenLeftOpen("flatten" \in disk[background_pdf_path].quirks, atOpen)
    /\ LET f == FlattenPdfWithPikepdf(pypdf2_result,
                                      "flatten" \in disk[background_pdf_path].quirks)
       IN  /\ flattened' = f
           /\ log' = Append(log, Event("flatten", pypdf2_result))
           /\ Returns(FlattenOutcome(f, pypdf2_result), "secondary_merge")
    /\ UNCHANGED <<previous, parked>>
    /\ UNCHANGED <<PIKEPDF_AVAILABLE, writerKeepsAcroForm, template_cache, temp_files,
                   template, data, background_pdf_path, disk, fill_result, overlay_buffer,
                   overlay_bytes, pikepdf_works, result_bytes, pypdf2_result, timestamp>>

\* _generate_simple_pdf, from generate_pdf (line 67) or as the fallback (line 132)
Standalone(ts) ==
    /\ pc = "standalone"
    /\ timestamp' = ts
    /\ log' = Append(log, Event("standalone", NoneBytes))
    /\ LET r == GenerateSimplePdf(template, data, ts)
       IN  IF r.raised
           THEN /\ pc' = "done"
                /\ outcome' = "raised"
                /\ UNCHANGED <<result, source>>
           ELSE Returns(r.bytes, "standalone")
    /\ UNCHANGED <<previous, parked>>
    /\ UNCHANGED open_handles
    /\ UNCHANGED <<PIKEPDF_AVAILABLE, writerKeepsAcroForm, template_cache, temp_files,
                   template, data, background_pdf_path, disk, fill_result, overlay_buffer,
                   overlay_bytes, pikepdf_works, result_bytes, pypdf2_result, flattened>>

\* the locals of a call that has ended are gone
ResetLocals ==
    /\ pc' = "idle"
    /\ template' = NewTemplate("None", <<>>)
    /\ data' = EmptyDict
    /\ background_pdf_path' = NoPath
    /\ disk' = EmptyDict
    /\ fill_result' = NoneBytes
    /\ overlay_buffer' = NoneBytes
    /\ overlay_bytes' = NoneBytes
    /\ pikepdf_works' = FALSE
    /\ result_bytes' = NoneBytes
    /\ pypdf2_result' = NoneBytes
    /\ flattened' = NoneBytes
    /\ timestamp' = "None"
    /\ outcome' = "none"
    /\ result' = NoneBytes
    /\ source' = "none"
    /\ log' = <<>>
    /\ open_handles' = {}

\* the caller has the result; the service is ready for the next call
Return ==
    /\ pc = "done"
    /\ ResetLocals
    /\ UNCHANGED <<previous, parked>>
    /\ UNCHANGED <<PIKEPDF_AVAILABLE, writerKeepsAcroForm, template_cache, temp_files>>

\* a request reaches the service: app.py passes the template, the data and the
\* path of the background, if any
Call ==
    /\ pc = "idle"
    /\ \E r \in Requests :
          \/ GeneratePdf(r.template, r.data, NoPath, EmptyDict)
          \/ GeneratePdf(r.template, r.data, "gone.pdf", EmptyDict)
          \/ \E file \in BackgroundFiles :
                GeneratePdf(r.template, r.data, "bg.pdf", [p \in {"bg.pdf"} |-> file])

Next ==
    \/ Call
    \/ NativeFill
    \/ \E dirOk \in BOOLEAN, writeOk \in BOOLEAN, importOk \in BOOLEAN :
          OverlayRender(dirOk, writeOk, importOk)
    \/ \E closeOk \in BOOLEAN : PrimaryMerge(closeOk)
    \/ SecondaryMerge
    \/ \E atOpen \in BOOLEAN : Flatten(atOpen)
    \/ \E ts \in Timestamps : Standalone(ts)
    \/ Return

Spec == Init /\ [][Next]_vars

\* requests that exercise the field renderer, with and without a background
RenderCall ==
    /\ pc = "idle"
    /\ \E r \in RenderRequests :
          \/ GeneratePdf(r.template, r.data, NoPath, EmptyDict)
          \/ \E file \in RenderBackgrounds :
                GeneratePdf(r.template, r.data, "bg.pdf", [p \in {"bg.pdf"} |-> file])

RenderNext ==
    \/ RenderCall
    \/ NativeFill
    \/ \E dirOk \in BOOLEAN, writeOk \in BOOLEAN, importOk \in BOOLEAN :
          OverlayRender(dirOk, writeOk, importOk)
    \/ \E closeOk \in BOOLEAN : PrimaryMerge(closeOk)
    \/ SecondaryMerge
    \/ \E atOpen \in BOOLEAN : Flatten(atOpen)
    \/ \E ts \in Timestamps : Standalone(ts)
    \/ Return

RenderSpec == Init /\ [][RenderNext]_vars

-----------------------------------------------------------------------------
(* The same request rendered again *)

\* os.makedirs raised in the call: the overlay was rendered, and the simple
\* render followed without any merge in between
MakedirsFailed ==
    /\ IsResult(overlay_bytes)
    /\ \E i \in 1..(Len(log) - 1) :
          log[i].step = "overlay_render" /\ log[i + 1].step = "standalone"

\* what a call was given, what the environment answered, and what came of it
CallRecord ==
    [template |-> template, data |-> data, background_pdf_path |-> background_pdf_path,
     disk |-> disk, steps |-> [i \in 1..Len(log) |-> log[i].step],
     makedirs_failed |-> MakedirsFailed, pikepdf_works |-> pikepdf_works,
     timestamp |-> timestamp, outcome |-> outcome, result |-> result, source |-> source]

\* the caller has the result, and the call is remembered for comparison with
\* the next one
ReturnRemembered ==
    /\ pc = "done"
    /\ previous' = CallRecord
    /\ ResetLocals
    /\ UNCHANGED parked
    /\ UNCHANGED <<PIKEPDF_AVAILABLE, writerKeepsAcroForm, template_cache, temp_files>>

RepeatedRequests ==
    { [template |-> Invoice, data |-> Yes],
      [template |-> Consent, data |-> Yes] }

RepeatedCall ==
    /\ pc = "idle"
    /\ \E r \in RepeatedRequests :
          \/ GeneratePdf(r.template, r.data, NoPath, EmptyDict)
          \/ \E file \in RenderBackgrounds :
                GeneratePdf(r.template, r.data, "bg.pdf", [p \in {"bg.pdf"} |-> file])

RepeatedNext ==
    \/ RepeatedCall
    \/ NativeFill
    \/ \E dirOk \in BOOLEAN, writeOk \in BOOLEAN, importOk \in BOOLEAN :
          OverlayRender(dirOk, writeOk, importOk)
    \/ \E closeOk \in BOOLEAN : PrimaryMerge(closeOk)
    \/ SecondaryMerge
    \/ \E atOpen \in BOOLEAN : Flatten(atOpen)
    \/ \E ts \in Timestamps : Standalone(ts)
    \/ ReturnRemembered

RepeatedSpec == Init /\ [][RepeatedNext]_vars

-----------------------------------------------------------------------------
(* Two calls on the one PDFService instance of app.py *)

\* the locals of the call that is running
CallState ==
    [pc |-> pc, template |-> template, data |-> data,
     background_pdf_path |-> background_pdf_path, disk |-> disk,
     fill_result |-> fill_result, overlay_buffer |-> overlay_buffer,
     overlay_bytes |-> overlay_bytes, pikepdf_works |-> pikepdf_works,
     result_bytes |-> result_bytes, pypdf2_result |-> pypdf2_result,
     flattened |-> flattened, timestamp |-> timestamp, outcome |-> outcome,
     result |-> result, source |-> source, log |-> log,
     open_handles |-> open_handles]

\* the locals of a thread that is in no call
IdleState ==
    [pc |-> "idle", template |-> NewTemplate("None", <<>>), data |-> EmptyDict,
     background_pdf_path |-> NoPath, disk |-> EmptyDict,
     fill_result |-> NoneBytes, overlay_buffer |-> NoneBytes,
     overlay_bytes |-> NoneBytes, pikepdf_works |-> FALSE,
     result_bytes |-> NoneBytes, pypdf2_result |-> NoneBytes,
     flattened |-> NoneBytes, timestamp |-> "None", outcome |-> "none",
     result |-> NoneBytes, source |-> "none", log |-> <<>>, open_handles |-> {}]

\* the thread that is not running
OtherThread == IF parked = NoCall THEN IdleState ELSE parked

\* the service takes no lock: between any two steps of a call the other thread
\* may run. The locals travel with their thread; the module global, the
\* instance attributes and the temp directory stay where they are
Switch ==
    /\ parked' = CallState
    /\ pc' = OtherThread.pc
    /\ template' = OtherThread.template
    /\ data' = OtherThread.data
    /\ background_pdf_path' = OtherThread.background_pdf_path
    /\ disk' = OtherThread.disk
    /\ fill_result' = OtherThread.fill_result
    /\ overlay_buffer' = OtherThread.overlay_buffer
    /\ overlay_bytes' = OtherThread.overlay_bytes
    /\ pikepdf_works' = OtherThread.pikepdf_works
    /\ result_bytes' = OtherThread.result_bytes
    /\ pypdf2_result' = OtherThread.pypdf2_result
    /\ flattened' = OtherThread.flattened
    /\ timestamp' = OtherThread.timestamp
    /\ outcome' = OtherThread.outcome
    /\ result' = OtherThread.result
    /\ source' = OtherThread.source
    /\ log' = OtherThread.log
    /\ open_handles' = OtherThread.open_handles
    /\ UNCHANGED previous
    /\ UNCHANGED <<PIKEPDF_AVAILABLE, writerKeepsAcroForm, template_cache, temp_files>>

ConcurrentRequests ==
    { [template |-> Invoice, data |-> Yes],
      [template |-> Consent, data |-> Yes] }

ConcurrentCall ==
    /\ pc = "idle"
    /\ \E r \in ConcurrentRequests :
          \/ GeneratePdf(r.template, r.data, NoPath, EmptyDict)
          \/ \E file \in RenderBackgrounds :
                GeneratePdf(r.template, r.data, "bg.pdf", [p \in {"bg.pdf"} |-> file])

ConcurrentNext ==
    \/ ConcurrentCall
    \/ NativeFill
    \/ \E dirOk \in BOOLEAN, writeOk \in BOOLEAN, importOk \in BOOLEAN :
          OverlayRender(dirOk, writeOk, importOk)
    \/ \E closeOk \in BOOLEAN : PrimaryMerge(closeOk)
    \/ SecondaryMerge
    \/ \E atOpen \in BOOLEAN : Flatten(atOpen)
    \/ \E ts \in Timestamps : Standalone(ts)
    \/ Return
    \/ Switch

ConcurrentSpec == Init /\ [][ConcurrentNext]_vars

-----------------------------------------------------------------------------
(* The pikepdf merge on its own *)

\* overlay documents whose page has no /Contents entry, one stream, or an
\* array of streams
Overlays ==
    {Doc(<<Page(c, NoAnnots)>>, FALSE, "ReportLab") :
        c \in {NoContents,
               SingleContents(<<TextOp(3000, 17160, <<"N">>, "Helvetica", 12)>>),
               ArrayContents(<<<<TextOp(3000, 17160, <<"N">>, "Helvetica", 12)>>,
                               <<TextOp(3000, 9000, <<"M">>, "Helvetica", 12)>>>>)}}

\* _merge_with_pikepdf(background_pdf_path, overlay_bytes) called with a
\* background file and an overlay document, and what it returns
MergeOnly(closeOk) ==
    /\ pc = "idle"
    /\ \E file \in BackgroundFiles, overlay \in Overlays :
          /\ background_pdf_path' = "bg.pdf"
          /\ disk' = [p \in {"bg.pdf"} |-> file]
          /\ overlay_bytes' = overlay
          /\ result_bytes' = MergeWithPikepdf(file, overlay)
          /\ result' = MergeWithPikepdf(file, overlay)
          /\ open_handles' = MergeFinally(MergeOpened(file, overlay), closeOk)
          /\ log' = <<Event("primary_merge", overlay)>>
    /\ pc' = "done"
    /\ outcome' = "returned"
    /\ source' = "primary_merge"
    /\ UNCHANGED <<previous, parked>>
    /\ UNCHANGED <<PIKEPDF_AVAILABLE, writerKeepsAcroForm, template_cache, temp_files,
                   template, data, fill_result, overlay_buffer, pikepdf_works,
                   pypdf2_result, flattened, timestamp>>

MergeNext ==
    \/ \E closeOk \in BOOLEAN : MergeOnly(closeOk)
    \/ Return

MergeSpec == Init /\ [][MergeNext]_vars

-----------------------------------------------------------------------------
(* Properties of the strategy chain *)

\* the steps of the call so far, by name
Steps == [i \in 1..Len(log) |-> log[i].step]

Attempted(step) == \E i \in 1..Len(log) : log[i].step = step

\* the call was given no usable background
NoBackground == background_pdf_path = NoPath \/ background_pdf_path \notin DOMAIN disk

\* the simple render of the call's template and data
StandaloneRender == GenerateSimplePdf(template, data, timestamp)

\* the call ended in the simple render: its document was returned, or its
\* exception was raised
EndedInStandalone ==
    /\ Steps[Len(log)] = "standalone"
    /\ \/ outcome = "returned" /\ source = "standalone" /\ ~StandaloneRender.raised
          /\ result = StandaloneRender.bytes
       \/ outcome = "raised" /\ StandaloneRender.raised

\* position of a step in the chain
Rank(step) ==
    CASE step = "native_fill" -> 1
      [] step = "overlay_render" -> 2
      [] step = "primary_merge" -> 3
      [] step = "secondary_merge" -> 4
      [] step = "secondary_merge_alt" -> 5
      [] step = "flatten" -> 6
      [] step = "standalone" -> 7

\* a step of the running call
CallStep ==
    \/ NativeFill
    \/ \E dirOk \in BOOLEAN, writeOk \in BOOLEAN, importOk \in BOOLEAN :
          OverlayRender(dirOk, writeOk, importOk)
    \/ \E closeOk \in BOOLEAN : PrimaryMerge(closeOk)
    \/ SecondaryMerge
    \/ \E atOpen \in BOOLEAN : Flatten(atOpen)
    \/ \E ts \in Timestamps : Standalone(ts)

\* C1: a call whose background path is absent or names no existing file runs
\* the simple render and nothing else (no native fill, overlay render, merge or
\* flatten), and what it returns is the simple render of its template and data.
C1_NoBackgroundIsStandalone ==
    (pc # "idle" /\ NoBackground) =>
        /\ pc \in {"standalone", "done"}
        /\ \A i \in 1..Len(log) : log[i].step = "standalone"
        /\ pc = "done" => (Steps = <<"standalone">> /\ EndedInStandalone)

C1_Witness ==
    /\ pc = "done"
    /\ background_pdf_path = "gone.pdf"
    /\ outcome = "returned"
    /\ result = StandaloneRender.bytes

\* C2: the steps of one call are taken in the order native fill, overlay
\* render, pikepdf merge, PyPDF2 merge (standard, then reversed), flatten, simple
\* render; none is taken twice and none is taken after a later one.
C2_StepsInOrderOnce ==
    \A i, j \in 1..Len(log) : i < j => Rank(log[i].step) < Rank(log[j].step)

C2_Witness ==
    /\ pc = "done"
    /\ Steps = <<"native_fill", "overlay_render", "primary_merge", "secondary_merge",
                 "secondary_merge_alt", "standalone">>

\* C3: a call always ends, and with exactly one outcome: a PDF document was
\* returned (never None), or an exception was raised, and an exception is raised
\* only by the simple render. While the call runs a step is always possible and
\* every step adds to the bounded list of steps taken, so the call ends.
C3_OneOutcome ==
    /\ pc = "done" =>
          \/ outcome = "returned" /\ IsResult(result) /\ result.kind = "pdf"
             /\ result.pages # <<>>
          \/ outcome = "raised" /\ result = NoneBytes
             /\ Steps[Len(log)] = "standalone" /\ StandaloneRender.raised
    /\ pc \notin {"idle", "done"} =>
          /\ outcome = "none"
          /\ ENABLED CallStep
          /\ Len(log) < 7

C3_Witness ==
    /\ pc = "done"
    /\ outcome = "raised"
    /\ Attempted("secondary_merge")

\* C4: when native fill gave nothing and the merges failed (the pikepdf merge,
\* if it was attempted, gave nothing, and the PyPDF2 merge raised), the call
\* goes on to the simple render of the template and data, whose document has
\* nothing of the background.
C4_AllMergesFailedIsStandalone ==
    (/\ Attempted("native_fill") /\ ~IsResult(fill_result)
     /\ Attempted("primary_merge") => ~IsResult(result_bytes)
     /\ Attempted("secondary_merge") /\ ~IsResult(pypdf2_result)) =>
        /\ pc \in {"standalone", "done"}
        /\ pc = "done" => EndedInStandalone

C4_Witness ==
    /\ pc = "done"
    /\ Attempted("primary_merge")
    /\ Attempted("secondary_merge")
    /\ ~IsResult(pypdf2_result)
    /\ outcome = "returned"
    /\ source = "standalone"

\* native fill was attempted and gave no document
NativeFillNotApplicable == Attempted("native_fill") /\ ~IsResult(fill_result)

\* the first merge back-end the call attempted, "none" if it attempted none
FirstMerge ==
    IF \E i \in 1..Len(log) : log[i].step \in {"primary_merge", "secondary_merge"}
    THEN log[CHOOSE i \in 1..Len(log) :
               /\ log[i].step \in {"primary_merge", "secondary_merge"}
               /\ \A j \in 1..(i - 1) : log[j].step \notin {"primary_merge", "secondary_merge"}].step
    ELSE "none"

\* C5 as claimed: whenever native fill gave no document, the call renders the
\* overlay and attempts the pikepdf merge.
C5_Original ==
    (pc = "done" /\ NativeFillNotApplicable) =>
        (Attempted("overlay_render") /\ Attempted("primary_merge"))

\* C5, amended: native fill raises nothing; when it gives no document the call
\* neither ends nor fails there, its next step is the overlay render, and the
\* first merge back-end attempted is pikepdf when pikepdf can be imported and
\* PyPDF2 when it cannot; when the overlay step raises no merge is attempted and
\* the simple render follows.
C5_NativeFillFallsThrough ==
    NativeFillNotApplicable =>
        /\ Steps[1] = "native_fill"
        /\ Len(log) = 1 => (pc = "overlay_render" /\ outcome = "none")
        /\ Len(log) > 1 => Steps[2] = "overlay_render"
        /\ FirstMerge = "primary_merge" => pikepdf_works
        /\ FirstMerge = "secondary_merge" => ~pikepdf_works
        /\ (FirstMerge = "none" /\ Len(log) > 2) => Steps[3] = "standalone"

C5_Witness ==
    /\ pc = "done"
    /\ NativeFillNotApplicable
    /\ disk[background_pdf_path].doc.acroForm
    /\ FirstMerge = "secondary_merge"
    /\ source = "secondary_merge"

\* C6: when native fill gives a document the call returns exactly that document
\* and native fill is its only step.
C6_NativeFillIsTerminal ==
    IsResult(fill_result) =>
        /\ pc = "done"
        /\ outcome = "returned"
        /\ result = fill_result
        /\ Steps = <<"native_fill">>

C6_Witness ==
    /\ pc = "done"
    /\ source = "native_fill"
    /\ result.acroForm
    /\ Len(result.pages) > 1

\* C7: when the pikepdf merge gives nothing, the PyPDF2 merge is the next step
\* and is given the overlay the pikepdf merge was given; the overlay is rendered
\* once in the call.
C7_SameOverlayForSecondary ==
    (Attempted("primary_merge") /\ ~IsResult(result_bytes)) =>
        /\ Cardinality({i \in 1..Len(log) : log[i].step = "overlay_render"}) = 1
        /\ \A i \in 1..Len(log) : log[i].step = "primary_merge" =>
              /\ log[i].arg = overlay_bytes
              /\ i = Len(log) => pc = "secondary_merge"
              /\ i < Len(log) => /\ log[i + 1].step = "secondary_merge"
                                 /\ log[i + 1].arg = log[i].arg

C7_Witness ==
    /\ pc = "done"
    /\ Attempted("primary_merge")
    /\ source = "secondary_merge"
    /\ PageOps(overlay_bytes.pages[1]) # <<>>

\* the document has no widget on any page and no /AcroForm
IsFlattened(doc) ==
    /\ ~doc.acroForm
    /\ \A p \in 1..Len(doc.pages) : doc.pages[p].annots.widgets = <<>>

\* C8: whenever the PyPDF2 merge yields the call's output, the output is the
\* PyPDF2 result after the flatten pass, never the PyPDF2 result itself.
C8_SecondaryOutputIsFlattened ==
    (pc = "done" /\ source = "secondary_merge") =>
        /\ Attempted("flatten")
        /\ result = RemoveFormFields(pypdf2_result)

\* C9: every document a merge returns has no widget on any page and no
\* /AcroForm in its catalog.
C9_MergeOutputHasNoWidgets ==
    (pc = "done" /\ source \in {"primary_merge", "secondary_merge"}) => IsFlattened(result)

\* C10: in the first page of every document a merge returns, the content is the
\* background's content followed by the overlay's content, each in its own order.
C10_OverlayPaintsLast ==
    (pc = "done" /\ source \in {"primary_merge", "secondary_merge"}) =>
        PageOps(result.pages[1]) =
            PageOps(disk[background_pdf_path].doc.pages[1]) \o PageOps(overlay_bytes.pages[1])

\* C11: every document a call returns has exactly one page, whichever step
\* produced it and however many pages the background has.
C11_OutputIsSinglePage ==
    (pc = "done" /\ outcome = "returned") => Len(result.pages) = 1

\* the template's field of that name, if it has one
HasField(t, name) == \E i \in 1..Len(t.fields) : t.fields[i].name = name

FieldNamed(t, name) == t.fields[CHOOSE i \in 1..Len(t.fields) : t.fields[i].name = name]

\* the value the data map holds for a field, as a form field value: on/off for
\* a checkbox, the text of the entry (empty when missing) for any other kind
DataValueFor(field, d) ==
    IF field.type = "checkbox" THEN FillCheckboxState(DictGet(d, field.name, EmptyStr))
    ELSE Str(DictGet(d, field.name, EmptyStr))

\* C13: in the document native fill returns, every widget of the background,
\* on any page, whose name is the name of a template field holds the value the
\* data map gives that field (also when it is empty or missing), and every
\* other widget holds the value it had in the background.
C13_NativeFillSetsMatched ==
    (pc = "done" /\ source = "native_fill") =>
        LET bg == disk[background_pdf_path].doc
        IN  /\ Len(result.pages) = Len(bg.pages)
            /\ \A p \in 1..Len(bg.pages) :
                  /\ Len(result.pages[p].annots.widgets) = Len(bg.pages[p].annots.widgets)
                  /\ \A i \in 1..Len(bg.pages[p].annots.widgets) :
                        LET old == bg.pages[p].annots.widgets[i]
                            new == result.pages[p].annots.widgets[i]
                        IN  /\ new.name = old.name
                            /\ new.value = IF HasField(template, old.name)
                                           THEN DataValueFor(FieldNamed(template, old.name), data)
                                           ELSE old.value

-----------------------------------------------------------------------------
(* Properties of the field renderer and of native fill *)

On == <<"/", "Y", "e", "s">>
Off == <<"/", "O", "f", "f">>

\* the widgets of a document's first page
FirstPageWidgets(doc) ==
    {doc.pages[1].annots.widgets[i] : i \in 1..Len(doc.pages[1].annots.widgets)}

\* the field renderer draws the field checked
RendersChecked(field, d) ==
    DrawField(field, d, template.pageHeight, TRUE).ret = "checkbox_drawn"

\* C12: for a checkbox field, the form field native fill writes is on exactly
\* when the field renderer draws the same value checked, and off otherwise.
C12_FillAgreesWithRenderer ==
    (pc = "done" /\ source = "native_fill") =>
        \A i \in 1..Len(template.fields) :
            template.fields[i].type = "checkbox" =>
                \A w \in FirstPageWidgets(result) :
                    w.name = template.fields[i].name =>
                        w.value = IF RendersChecked(template.fields[i], data) THEN On ELSE Off

\* the template has one field, a checkbox
OneCheckbox == Len(template.fields) = 1 /\ template.fields[1].type = "checkbox"

\* the value the data map gives the template's field
GivenValue == DictGet(data, template.fields[1].name, EmptyStr)

\* the page holds the two strokes of a checkmark
CheckmarkDrawn(doc) ==
    Len(SelectSeq(PageOps(doc.pages[1]), LAMBDA o : o.op = "line")) = 2

NegativeWords ==
    {<<"f", "a", "l", "s", "e">>, <<"n", "o">>, <<"0">>,
     <<"u", "n", "c", "h", "e", "c", "k", "e", "d">>, <<"o", "f", "f">>}

AffirmativeWords ==
    {<<"t", "r", "u", "e">>, <<"y", "e", "s">>, <<"1">>,
     <<"c", "h", "e", "c", "k", "e", "d">>, <<"o", "n">>, <<"x">>}

\* the documents of the call the field renderer drew: the overlay, and the
\* simple render when it is what the call returned
DrawnDocs ==
    (IF IsResult(overlay_bytes) THEN {overlay_bytes} ELSE {})
    \cup (IF pc = "done" /\ source = "standalone" THEN {result} ELSE {})

\* C14 as claimed: the checkmark is drawn if and only if the value is not empty
\* and is not, whatever its case, one of false, no, 0, unchecked, off.
C14_Original ==
    OneCheckbox =>
        \A doc \in DrawnDocs :
            CheckmarkDrawn(doc) <=>
                (Str(GivenValue) # <<>> /\ Lower(Str(GivenValue)) \notin NegativeWords)

\* C14, amended: the checkmark is drawn if and only if the value is truthy and
\* its text, with the white space around it removed and in lower case, is not
\* empty and not one of false, no, 0, unchecked, off; so true, yes, 1, checked,
\* on, x and every other text that is neither blank nor one of those words is
\* drawn checked, and a missing value is drawn unchecked.
C14_CheckedUnlessNegative ==
    OneCheckbox =>
        \A doc \in DrawnDocs :
            /\ CheckmarkDrawn(doc) <=>
                  /\ Truthy(GivenValue)
                  /\ Lower(Strip(Str(GivenValue))) \notin NegativeWords \cup {<<>>}
            /\ (GivenValue.t = "str" /\ GivenValue.s \in AffirmativeWords) => CheckmarkDrawn(doc)
            /\ template.fields[1].name \notin DOMAIN data => ~CheckmarkDrawn(doc)

\* a text in neither word list is drawn checked, in the overlay and in the
\* simple render
C14_Witness ==
    /\ OneCheckbox
    /\ pc = "done" /\ source = "standalone"
    /\ IsResult(overlay_bytes)
    /\ GivenValue = StrV(<<"m", "a", "y", "b", "e">>)
    /\ CheckmarkDrawn(result) /\ CheckmarkDrawn(overlay_bytes)

\* the template has one field, of a kind drawn as text
OneTextField ==
    Len(template.fields) = 1 /\ template.fields[1].type \in {"text", "number", "date", "select"}

\* the texts drawn at the place of the field's value: inset by 5 from its left
ValueTexts(doc) ==
    SelectSeq(PageOps(doc.pages[1]),
              LAMBDA o : o.op = "drawString" /\ o.x = 30 * (template.fields[1].x + 5))

\* the text of the value before any truncation
FullText ==
    IF template.fields[1].type = "date" THEN FormatDate(Str(GivenValue)) ELSE Str(GivenValue)

EndsInEllipsis(text) == Len(text) >= 3 /\ SubSeq(text, Len(text) - 2, Len(text)) = Ellipsis

\* C15: a value of length L in a box of width W at font size F is drawn
\* truncated if and only if L > W / (0.6 F), that is 3 F L > 5 W; the truncated
\* text ends in '...' and is floor(W / (0.6 F)) characters long; a text that is
\* not truncated is drawn as it is.
C15_TruncatedToCapacity ==
    (OneTextField /\ Truthy(GivenValue)) =>
        \A doc \in DrawnDocs :
            LET W == template.fields[1].width
                F == template.fields[1].fontSize
                L == Len(FullText)
                drawn == ValueTexts(doc)
            IN  /\ Len(drawn) = 1
                /\ IF 3 * F * L > 5 * W
                   THEN /\ EndsInEllipsis(drawn[1].text)
                        /\ Len(drawn[1].text) = (5 * W) \div (3 * F)
                   ELSE drawn[1].text = FullText

\* the template has one field, a table with as many headers as columns
OneTableWithHeaders ==
    /\ Len(template.fields) = 1
    /\ template.fields[1].type = "table"
    /\ "tableHeaders" \in DOMAIN template.fields[1]
    /\ Len(template.fields[1].tableHeaders) = GetAttr(template.fields[1], "tableColumns", 3)

\* the data of the table is a list of positional rows
PositionalData ==
    /\ template.fields[1].name \in DOMAIN data
    /\ GivenValue.t = "list"
    /\ \A r \in 1..Len(GivenValue.rows) : GivenValue.rows[r].t = "list"

\* the same data with every row given as a map from header text to cell value
DataAsMaps ==
    [n \in DOMAIN data |-> AsDictRows(template.fields[1].tableHeaders, data[n])]

\* the visible cell texts of a page and where they are: cells are the only
\* texts in 9 pt Helvetica
CellTexts(doc) ==
    LET ops == PageOps(doc.pages[1])
    IN  {[x |-> ops[k].x, y |-> ops[k].y, text |-> ops[k].text] :
            k \in {j \in 1..Len(ops) : /\ ops[j].op = "drawString"
                                       /\ ops[j].font = "Helvetica" /\ ops[j].size = 9
                                       /\ ops[j].text # <<>>}}

\* C16: with as many headers as columns, rows given by position and the same
\* rows given as maps keyed by header text draw the same cell texts at the same
\* positions, in the overlay and in the simple render.
C16_RowShapesDrawAlike ==
    (OneTableWithHeaders /\ PositionalData) =>
        /\ IsResult(overlay_bytes) =>
              CellTexts(overlay_bytes) = CellTexts(RenderOverlay(template, DataAsMaps).bytes)
        /\ (pc = "done" /\ source = "standalone") =>
              CellTexts(result) = CellTexts(GenerateSimplePdf(template, DataAsMaps, timestamp).bytes)

\* the vertical coordinates of a mark
Ys(o) == IF o.op = "line" THEN {o.y1, o.y2} ELSE {o.y}

\* the lowest point of a non-empty sequence of marks
LowestY(ops) ==
    LET ys == UNION {Ys(ops[k]) : k \in 1..Len(ops)}
    IN  CHOOSE m \in ys : \A other \in ys : m <= other

\* the mark moved up by dy
ShiftY(o, dy) ==
    IF o.op = "line" THEN [o EXCEPT !.y1 = @ + dy, !.y2 = @ + dy] ELSE [o EXCEPT !.y = @ + dy]

\* the marks the field would get with its box at content-Y 0: at editor y 0 on
\* a page as high as the field
MarksAtOrigin(overlay_mode) ==
    DrawField([template.fields[1] EXCEPT !.y = 0], data, template.fields[1].height,
              overlay_mode).ops

\* where the lowest mark of a field lies above the bottom of its box, in 1/30
\* point: the box or border itself, the text base line at height/2 - fontSize/3,
\* the low point of the checkmark at 20% of the height
LowestOffset(field, overlay_mode) ==
    CASE field.type = "table" -> 0
      [] field.type = "checkbox" -> IF overlay_mode THEN 6 * field.height ELSE 0
      [] field.type = "label" -> 15 * field.height - 10 * field.fontSize
      [] OTHER -> IF overlay_mode THEN 15 * field.height - 10 * field.fontSize ELSE 0

\* the marks of the field, moved down by contentY, are those drawn at content-Y
\* 0, and the lowest of them is where the kind of the field puts it above contentY
PlacedAt(ops, contentY, overlay_mode) ==
    /\ [k \in 1..Len(ops) |-> ShiftY(ops[k], -30 * contentY)] = MarksAtOrigin(overlay_mode)
    /\ ops # <<>> =>
          LowestY(ops) = 30 * contentY + LowestOffset(template.fields[1], overlay_mode)

\* the marks of the simple render after the two lines of its header
FieldMarks(doc) == Tail(Tail(PageOps(doc.pages[1])))

\* C17: every kind of field, tables included, is drawn at
\* contentY = pageHeight - field.y - field.height, taken once: all its marks are
\* the marks of the same field drawn at content-Y 0 moved up by contentY, in the
\* overlay and in the simple render; a field at editor y 200 of height 20 on a
\* page of height 792 has its box at content-Y 572 and its value on the base
\* line inside that box.
C17_ContentYOnce ==
    Len(template.fields) = 1 =>
        LET field == template.fields[1]
            contentY == template.pageHeight - field.y - field.height
        IN  /\ IsResult(overlay_bytes) =>
                  PlacedAt(PageOps(overlay_bytes.pages[1]), contentY, TRUE)
            /\ (pc = "done" /\ source = "standalone") =>
                  PlacedAt(FieldMarks(result), contentY, FALSE)
            /\ (pc = "done" /\ source = "standalone" /\ template.pageHeight = 792
                 /\ field.y = 200 /\ field.height = 20 /\ field.type # "table") =>
                  /\ contentY = 572
                  /\ LowestY(FieldMarks(result)) = 30 * 572

\* the documented scenario: the amount is drawn in the box whose bottom is at
\* content-Y 572
C17_Witness ==
    /\ pc = "done" /\ source = "standalone"
    /\ template = OnPage("Receipt", Total, 792)
    /\ \E k \in 1..Len(FieldMarks(result)) :
          /\ FieldMarks(result)[k].op = "drawString"
          /\ FieldMarks(result)[k].text = Amount
          /\ FieldMarks(result)[k].y = 30 * 572 + 15 * 20 - 10 * 12
    /\ \E k \in 1..Len(FieldMarks(result)) :
          FieldMarks(result)[k].op = "rect" /\ FieldMarks(result)[k].y = 30 * 572

\* C19: no render call ends by raising, whatever the template and the data
\* lack: a value missing from the data map is drawn as empty, table data of the
\* wrong shape is skipped, and a table field for which the request gave no row
\* count, column count, headers or cell size is drawn with the defaults.
C19_RenderingNeverRaises ==
    /\ outcome # "raised"
    /\ (pc = "done" /\ \E i \in 1..Len(template.fields) : template.fields[i].type = "table") =>
          /\ outcome = "returned"
          /\ source = "standalone" => \E k \in 1..Len(FieldMarks(result)) :
                                          FieldMarks(result)[k].op = "rect"

\* the call that has just ended was given what the call before it was given
SameTripleAsPrevious ==
    /\ pc = "done"
    /\ previous # NoCall
    /\ previous.template = template
    /\ previous.data = data
    /\ previous.background_pdf_path = background_pdf_path
    /\ previous.disk = disk

SameEnvironmentAsPrevious ==
    /\ previous.makedirs_failed = MakedirsFailed
    /\ previous.pikepdf_works = pikepdf_works

-----------------------------------------------------------------------------
(* Properties of concurrent calls *)

\* the document a call returned is the one its returning step computes from the
\* call's own template, data and background, and its first step is the one its
\* own background path selects
AsAlone(c) ==
    LET bg == c.disk[c.background_pdf_path]
        o == RenderOverlay(c.template, c.data).bytes
        m == PyPDF2Merge(bg, SecondaryOverlay(o))
        f == FlattenPdfWithPikepdf(m.bytes, "flatten" \in bg.quirks)
        steps == [i \in 1..Len(c.log) |-> c.log[i].step]
    IN  /\ Len(steps) > 0 =>
              steps[1] = IF UseOverlayMode(c.background_pdf_path, c.disk)
                         THEN "native_fill" ELSE "standalone"
        /\ c.outcome = "returned" =>
              /\ c.source = "native_fill" =>
                    /\ steps = <<"native_fill">>
                    /\ c.result = TryFillPdfFormFields(bg, c.template, c.data,
                                                       writerKeepsAcroForm)
              /\ c.source = "primary_merge" =>
                    /\ steps = <<"native_fill", "overlay_render", "primary_merge">>
                    /\ c.result = MergeWithPikepdf(bg, o)
              /\ c.source = "secondary_merge" =>
                    c.result \in {m.bytes, FlattenOutcome(f, m.bytes)}
              /\ c.source = "standalone" =>
                    c.result = GenerateSimplePdf(c.template, c.data, c.timestamp).bytes

C20_OutputAsAlone == AsAlone(CallState) /\ AsAlone(OtherThread)

\* both threads are inside generate_pdf
BothInCall ==
    /\ pc \notin {"idle", "done"}
    /\ OtherThread.pc \notin {"idle", "done"}

\* C20: calls running concurrently on the same PDFService instance write no
\* state shared between calls (while both are running no step changes the module
\* global, the instance attributes or the temp directory), and under every interleaving each call's
\* strategy path and output are those the call produces when run alone
C20_CallsShareNothing ==
    /\ []C20_OutputAsAlone
    /\ [][BothInCall => UNCHANGED <<PIKEPDF_AVAILABLE, writerKeepsAcroForm,
                                    template_cache, temp_files>>]_vars


\* the border of the checkbox: an unfilled rectangle on the box of the field
BorderDrawn(ops, field, contentY) ==
    \E k \in 1..Len(ops) :
        /\ ops[k].op = "rect"
        /\ ~ops[k].fill
        /\ ops[k].x = 30 * field.x /\ ops[k].y = 30 * contentY
        /\ ops[k].w = 30 * field.width /\ ops[k].h = 30 * field.height

\* the label of the checkbox, written to the right of its box
AdjacentLabelDrawn(ops, field) ==
    \E k \in 1..Len(ops) :
        /\ ops[k].op = "drawString"
        /\ ops[k].text = field.label
        /\ ops[k].x = 30 * (field.x + field.width + 5)

\* C21: in the simple render a checkbox has its border and the label next to it
\* drawn, checked or not; in the overlay neither the border nor the label is
\* drawn.
C21_CheckboxBorderAndLabel ==
    OneCheckbox =>
        LET field == template.fields[1]
            contentY == template.pageHeight - field.y - field.height
        IN  /\ (pc = "done" /\ source = "standalone") =>
                  /\ BorderDrawn(FieldMarks(result), field, contentY)
                  /\ AdjacentLabelDrawn(FieldMarks(result), field)
            /\ IsResult(overlay_bytes) =>
                  \A k \in 1..Len(PageOps(overlay_bytes.pages[1])) :
                      PageOps(overlay_bytes.pages[1])[k].op \notin {"rect", "drawString"}


-----------------------------------------------------------------------------
(* What a call leaves behind *)

\* C22: a render call leaves nothing behind but the bytes it returns: on every
\* strategy path no step of it adds a file to the disk or an entry to the
\* service's cache.
C22_NoArtifacts ==
    [][temp_files' = temp_files /\ template_cache' = template_cache]_vars


\* C23: every pikepdf document opened during a call (the background and the
\* overlay of the pikepdf merge, the document of the flatten pass) is closed by
\* the time the call ends, also when the merge, the flatten pass or a save
\* raised, and also when closing another document failed.
C23_HandlesClosed == pc = "done" => open_handles = {}


-----------------------------------------------------------------------------
(* Properties of the pikepdf merge *)

\* the /Contents entries of the first pages handed to the merge, and of the
\* first page of what it returned
BackgroundEntry == disk[background_pdf_path].doc.pages[1].contents
OverlayEntry == overlay_bytes.pages[1].contents
MergedEntry == result_bytes.pages[1].contents

\* a content entry read as a sequence of streams
EntrySeq(entry) ==
    IF entry.shape = "none" THEN <<>>
    ELSE IF entry.shape = "single" THEN <<entry.streams[1]>>
    ELSE entry.streams

\* C24: the pikepdf merge brings the content entries to one shape before it
\* joins them: a background page without entry counts as the empty sequence, a
\* single entry of background or overlay as a sequence of one, and the merged
\* page holds the background sequence followed by the overlay sequence; an
\* overlay without entry leaves the background's entry as it was.
C24_ContentsNormalised ==
    (pc = "done" /\ IsResult(result_bytes)) =>
        /\ OverlayEntry.shape = "none" => MergedEntry = BackgroundEntry
        /\ OverlayEntry.shape # "none" =>
              /\ MergedEntry.shape = "array"
              /\ MergedEntry.streams = EntrySeq(BackgroundEntry) \o EntrySeq(OverlayEntry)
              /\ BackgroundEntry.shape = "none" =>
                    MergedEntry.streams = EntrySeq(OverlayEntry)
              /\ (BackgroundEntry.shape = "single" /\ OverlayEntry.shape = "single") =>
                    MergedEntry.streams =
                        <<BackgroundEntry.streams[1], OverlayEntry.streams[1]>>

\* one stream under one stream
C24_Witness ==
    /\ pc = "done"
    /\ IsResult(result_bytes)
    /\ BackgroundEntry.shape = "single"
    /\ OverlayEntry.shape = "single"
    /\ Len(MergedEntry.streams) = 2


-----------------------------------------------------------------------------
(* What is drawn for text fields and labels in the two modes *)

\* the filled rectangle on the box of the field
TintedBoxDrawn(ops, field, contentY) ==
    \E k \in 1..Len(ops) :
        /\ ops[k].op = "rect"
        /\ ops[k].fill
        /\ ops[k].x = 30 * field.x /\ ops[k].y = 30 * contentY
        /\ ops[k].w = 30 * field.width /\ ops[k].h = 30 * field.height

\* the caption above the box: the label followed by a colon
CaptionDrawn(ops, field, contentY) ==
    \E k \in 1..Len(ops) :
        /\ ops[k].op = "drawString"
        /\ ops[k].text = field.label \o <<":">>
        /\ ops[k].x = 30 * field.x /\ ops[k].y = 30 * (contentY + field.height + 3)

\* C25: for a text, number, date or select field the value is drawn, in the
\* overlay and in the simple render, exactly when the data map holds a value
\* that is not empty; the tinted box and the caption are drawn in the simple
\* render and never in the overlay, which holds the value text and nothing
\* else; a label field leaves the overlay empty.
C25_ValueInBothModes ==
    /\ OneTextField =>
          LET field == template.fields[1]
              contentY == template.pageHeight - field.y - field.height
          IN  /\ \A doc \in DrawnDocs :
                    IF Str(GivenValue) # <<>>
                    THEN Len(ValueTexts(doc)) = 1
                    ELSE ValueTexts(doc) = <<>>
              /\ (pc = "done" /\ source = "standalone") =>
                    /\ TintedBoxDrawn(FieldMarks(result), field, contentY)
                    /\ CaptionDrawn(FieldMarks(result), field, contentY)
              /\ IsResult(overlay_bytes) =>
                    PageOps(overlay_bytes.pages[1]) = ValueTexts(overlay_bytes)
    /\ (Len(template.fields) = 1 /\ template.fields[1].type = "label"
         /\ IsResult(overlay_bytes)) =>
          PageOps(overlay_bytes.pages[1]) = <<>>


-----------------------------------------------------------------------------
(* Properties of the table renderer *)

\* a table field that carries its number of rows
OneTable ==
    /\ Len(template.fields) = 1
    /\ template.fields[1].type = "table"
    /\ template.fields[1].tableRows # <<>>

\* the marks the field renderer made in the call: those of the overlay, and
\* those of the simple render after its header when it is what the call returned
DrawnMarks ==
    (IF IsResult(overlay_bytes) THEN {PageOps(overlay_bytes.pages[1])} ELSE {})
    \cup (IF pc = "done" /\ source = "standalone" THEN {FieldMarks(result)} ELSE {})

\* cell texts are the texts in 9 pt Helvetica, header texts those in 10 pt bold
CellMarks(marks) ==
    SelectSeq(marks, LAMBDA o : o.op = "drawString" /\ o.font = "Helvetica" /\ o.size = 9)

HeaderMarks(marks) ==
    SelectSeq(marks, LAMBDA o : o.op = "drawString" /\ o.font = "Helvetica-Bold"
                                /\ o.size = 10)

\* C26: of the data rows of a table the first min(rows, number of data rows)
\* are drawn and no other, each with at most `columns` cells (a positional row
\* with min(columns, cells of the row), a map row with min(columns, headers),
\* a row of another shape with none), all inside the columns of the table;
\* min(columns, number of headers) headers are drawn; and the call does not
\* raise.
C26_RowsAndColumnsCut ==
    OneTable =>
        LET field == template.fields[1]
            rows == field.tableRows[1]
            columns == GetAttr(field, "tableColumns", 3)
            headers == GetAttr(field, "tableHeaders", <<>>)
            cell_width == GetAttr(field, "cellWidth", 100)
            cell_height == GetAttr(field, "cellHeight", 25)
            given == IF GivenValue.t = "list" THEN GivenValue.rows ELSE <<>>
            kept == IF rows < Len(given) THEN rows ELSE Len(given)
            top == template.pageHeight - field.y - field.height
                   + cell_height * (rows + IF headers = <<>> THEN 0 ELSE 1)
            RowY(r) == 30 * (top - (r + IF headers = <<>> THEN 0 ELSE 1) * cell_height)
                       + 15 * cell_height - 90
            Cut(n) == IF columns < n THEN columns ELSE n
            CellCount(row) ==
                CASE row.t = "list" -> Cut(Len(row.cells))
                  [] row.t = "dict" -> Cut(Len(headers))
                  [] OTHER -> 0
        IN  /\ pc = "done" => outcome = "returned"
            /\ \A marks \in DrawnMarks :
                  /\ Len(HeaderMarks(marks)) = Cut(Len(headers))
                  /\ \A r \in 1..kept :
                        Len(SelectSeq(CellMarks(marks), LAMBDA o : o.y = RowY(r)))
                            = CellCount(given[r])
                  /\ \A k \in 1..Len(CellMarks(marks)) :
                        /\ CellMarks(marks)[k].y \in {RowY(r) : r \in 1..kept}
                        /\ CellMarks(marks)[k].x < 30 * (field.x + columns * cell_width)

\* three data rows of one, three and two cells for a table of two rows and two
\* columns: the overlay holds one cell of the first row and two of the second
C26_Witness ==
    /\ OneTable
    /\ template.fields[1].tableRows = <<2>>
    /\ GetAttr(template.fields[1], "tableColumns", 3) = 2
    /\ GivenValue.t = "list"
    /\ Len(GivenValue.rows) = 3
    /\ IsResult(overlay_bytes)
    /\ Len(CellMarks(PageOps(overlay_bytes.pages[1]))) = 3


-----------------------------------------------------------------------------
(* Properties of the date formatting *)

\* a date field given a text that fits its box, so that the text drawn is the
\* formatted one in full
OneDateField ==
    /\ Len(template.fields) = 1
    /\ template.fields[1].type = "date"
    /\ GivenValue.t = "str"
    /\ GivenValue.s # <<>>
    /\ 3 * template.fields[1].fontSize * Len(GivenValue.s) <= 5 * template.fields[1].width

\* the text starts with a calendar date written YYYY-MM-DD
StartsWithDate(s) == Len(s) >= 10 /\ IsIsoDate(SubSeq(s, 1, 10))

\* a YYYY-MM-DD date, alone or followed by a time after a T
InIsoForm(s) == StartsWithDate(s) /\ (Len(s) = 10 \/ s[11] = "T")

\* C27: a date field draws every value in ISO form (a YYYY-MM-DD date, alone or
\* followed by a time) as exactly its YYYY-MM-DD part, and every value that is
\* no date as it was given; formatting the date never makes the call raise.
C27_DateDrawnAsIsoDay ==
    OneDateField =>
        /\ pc = "done" => outcome = "returned"
        /\ \A doc \in DrawnDocs :
              /\ Len(ValueTexts(doc)) = 1
              /\ InIsoForm(GivenValue.s) =>
                    ValueTexts(doc)[1].text = SubSeq(GivenValue.s, 1, 10)
              /\ ~StartsWithDate(GivenValue.s) =>
                    ValueTexts(doc)[1].text = GivenValue.s


\* the marks of the grid of a table: its border and tinted header row
\* (rectangles) and its rule lines
GridMarks(marks) == SelectSeq(marks, LAMBDA o : o.op \in {"rect", "line"})

\* C28: drawn in overlay mode a table has no grid (no outer border, no rule
\* lines, no tinted header row), only the texts of its cells, so the overlay of
\* a table holds no grid marks.
C28_NoGridInOverlay ==
    (OneTable /\ IsResult(overlay_bytes)) =>
        GridMarks(PageOps(overlay_bytes.pages[1])) = <<>>


-----------------------------------------------------------------------------
(* The debug copy of the overlay *)

\* C29: whether or not the debug copy of the overlay could be saved (the temp
\* directory created, the file written), a rendered overlay goes to the merge
\* back-ends: the step after the overlay render is the first merge, given the
\* rendered overlay, as when the copy was saved.
C29_DebugSaveFailureHarmless ==
    IsResult(overlay_bytes) =>
        \A i \in 1..Len(log) :
            log[i].step = "overlay_render" =>
                IF i = Len(log)
                THEN pc \in {"primary_merge", "secondary_merge"}
                ELSE /\ log[i + 1].step \in {"primary_merge", "secondary_merge"}
                     /\ log[i + 1].arg = overlay_bytes


-----------------------------------------------------------------------------
(* When native fill counts as a success *)

\* the names of the form fields of the background, on all its pages
NativeFieldNames ==
    LET pages == disk[background_pdf_path].doc.pages
    IN  UNION {{pages[p].annots.widgets[k].name : k \in 1..Len(pages[p].annots.widgets)} :
                 p \in 1..Len(pages)}

\* C30: a call ends in native fill only if the name of at least one template
\* field is the name of a form field of the background; with a form in the
\* background of which no field is named by the template, native fill is not
\* a success and the call goes on to the overlay merge, so that the values of
\* the data map are not missing from the output without notice.
C30_NativeFillNeedsMatch ==
    (pc = "done" /\ source = "native_fill") =>
        \E i \in 1..Len(template.fields) : template.fields[i].name \in NativeFieldNames

====
